---- MODULE Spec2Model ----
(***************************************************************************)
(* Model of server/main.py (Nika AI Analytics API): the three statistical  *)
(* handlers forecast, anomaly and insights, with the schema coercion they  *)
(* share.  A request is received, handled by exactly one handler, and the  *)
(* reply (a JSON body, or an exception leaving the handler) is sent.       *)
(*                                                                         *)
(* Numbers: cell values are small integers.  The forecast values are kept  *)
(* exact as rationals [num, den] (den = 0 stands for NaN).  The mean, the  *)
(* percent change and the correlations of insights are computed in IEEE    *)
(* doubles as the code computes them, and their formatted strings are kept *)
(* as integers in hundredths or tenths, rounded as Python's format()       *)
(* rounds the double.                                                      *)
(*                                                                         *)
(* Library semantics are those of pandas 2.x.  sort_values sorts with       *)
(* numpy's scalar quicksort (introsort), transcribed step by step, so the  *)
(* order of equal keys is the one that sort produces.  Whether a float     *)
(* conversion fails is decided by the values, not by the column's dtype.   *)
(* The fitted models (ARIMA, IsolationForest) are external: their results  *)
(* are nondeterministic.                                                   *)
(***************************************************************************)
EXTENDS Integers, Sequences, FiniteSets, TLC

VARIABLES
    sm,               \* module global: statsmodels imported (line 21-24)
    IsolationForest,  \* module global: sklearn imported (line 16-19)
    pc,               \* "idle" | "received" | "done"
    req,              \* the request being handled
    resp              \* what the handler produced

vars == <<sm, IsolationForest, pc, req, resp>>

----------------------------------------------------------------------------
(* Bounds of the explored inputs *)

MaxRows == 3       \* rows of the enumerated tables

----------------------------------------------------------------------------
(* Values *)

Min(a, b) == IF a < b THEN a ELSE b
Max(a, b) == IF a > b THEN a ELSE b
Abs(a) == IF a < 0 THEN -a ELSE a

RECURSIVE SumSeq(_)
SumSeq(s) == IF s = <<>> THEN 0 ELSE Head(s) + SumSeq(Tail(s))

\* The subsequence of s at the positions satisfying keep, in order
\* (what boolean-mask indexing and dropna do).
RECURSIVE FilterIdx(_, _, _)
FilterIdx(s, Keep(_), i) ==
    IF i > Len(s) THEN <<>>
    ELSE (IF Keep(i) THEN <<s[i]>> ELSE <<>>) \o FilterIdx(s, Keep, i + 1)

\* A cell of a record list / of a DataFrame.
\*   null : JSON null or absent key (None / NaN / NaT)
\*   num  : a JSON number, n its value
\*   str  : a JSON string, s its text
\*   date : a parsed Timestamp: midnight of day n (day n is 2024-01-(10+n))
\*          when s = "", n nanoseconds after 1970-01-01 00:00 when s = "ns"
Null == [k |-> "null", n |-> 0, s |-> ""]
Num(n) == [k |-> "num", n |-> n, s |-> ""]
Str(s) == [k |-> "str", n |-> 0, s |-> s]
Date(n) == [k |-> "date", n |-> n, s |-> ""]
Stamp(n) == [k |-> "date", n |-> n, s |-> "ns"]

\* An exact float: num/den, den = 0 is NaN.
Rat(a, b) == [num |-> a, den |-> b]
NaN == Rat(0, 0)
RatEq(x, y) ==
    IF x.den = 0 \/ y.den = 0 THEN x.den = 0 /\ y.den = 0
    ELSE x.num * y.den = y.num * x.den

\* Optional request parameters (pydantic Optional[...] = None)
Some(x) == [some |-> TRUE, val |-> x]
NoneStr == [some |-> FALSE, val |-> ""]
NoneList == [some |-> FALSE, val |-> <<>>]

----------------------------------------------------------------------------
(* IEEE-754 binary64 arithmetic, as numpy / the C code of pandas perform it *)
(* (round to nearest, ties to even; no fused multiply-add).                *)

\* A natural number of any size: its digits in base 2^15, lowest first, the
\* highest one nonzero; <<>> is 0.
Limb == 2^15

RECURSIVE BigTrim(_)
BigTrim(x) ==
    IF x # <<>> /\ x[Len(x)] = 0 THEN BigTrim(SubSeq(x, 1, Len(x) - 1)) ELSE x

RECURSIVE BigOfInt(_)
BigOfInt(n) == IF n = 0 THEN <<>> ELSE <<n % Limb>> \o BigOfInt(n \div Limb)

RECURSIVE BigToInt(_)
BigToInt(x) == IF x = <<>> THEN 0 ELSE x[1] + Limb * BigToInt(Tail(x))

Digit(x, i) == IF i <= Len(x) THEN x[i] ELSE 0

RECURSIVE BigAddFrom(_, _, _, _)
BigAddFrom(x, y, i, c) ==
    IF i > Len(x) /\ i > Len(y) THEN (IF c = 0 THEN <<>> ELSE <<c>>)
    ELSE <<(Digit(x, i) + Digit(y, i) + c) % Limb>>
         \o BigAddFrom(x, y, i + 1, (Digit(x, i) + Digit(y, i) + c) \div Limb)

BigAdd(x, y) == BigAddFrom(x, y, 1, 0)

\* x - y for x >= y.
RECURSIVE BigSubFrom(_, _, _, _)
BigSubFrom(x, y, i, b) ==
    IF i > Len(x) THEN <<>>
    ELSE IF x[i] - Digit(y, i) - b < 0
         THEN <<x[i] - Digit(y, i) - b + Limb>> \o BigSubFrom(x, y, i + 1, 1)
         ELSE <<x[i] - Digit(y, i) - b>> \o BigSubFrom(x, y, i + 1, 0)

BigSub(x, y) == BigTrim(BigSubFrom(x, y, 1, 0))

\* -1, 0, 1 as x <, =, > y, from digit i down.
RECURSIVE BigCmpAt(_, _, _)
BigCmpAt(x, y, i) ==
    IF i = 0 THEN 0
    ELSE IF x[i] < y[i] THEN -1
    ELSE IF x[i] > y[i] THEN 1
    ELSE BigCmpAt(x, y, i - 1)

BigCmp(x, y) ==
    IF Len(x) < Len(y) THEN -1
    ELSE IF Len(x) > Len(y) THEN 1
    ELSE BigCmpAt(x, y, Len(x))

\* x * k for 0 <= k <= 2^15.
RECURSIVE BigMulSmallFrom(_, _, _, _)
BigMulSmallFrom(x, k, i, c) ==
    IF i > Len(x) THEN (IF c = 0 THEN <<>> ELSE <<c % Limb>> \o (IF c \div Limb = 0 THEN <<>> ELSE <<c \div Limb>>))
    ELSE <<(x[i] * k + c) % Limb>> \o BigMulSmallFrom(x, k, i + 1, (x[i] * k + c) \div Limb)

BigMulSmall(x, k) == IF k = 0 THEN <<>> ELSE BigMulSmallFrom(x, k, 1, 0)

\* x * 2^(15 n)
BigShiftLimbs(x, n) == IF x = <<>> THEN <<>> ELSE [i \in 1..n |-> 0] \o x

RECURSIVE BigMulFrom(_, _, _)
BigMulFrom(x, y, j) ==
    IF j > Len(y) THEN <<>>
    ELSE BigAdd(BigShiftLimbs(BigMulSmall(x, y[j]), j - 1), BigMulFrom(x, y, j + 1))

BigMul(x, y) == BigMulFrom(x, y, 1)

\* x * 2^s
BigShl(x, s) == BigShiftLimbs(BigMulSmall(x, 2^(s % 15)), s \div 15)

\* floor(x / k) for 0 < k <= 2^15, digits i..1 of x with r carried in.
RECURSIVE BigDivSmallAt(_, _, _, _)
BigDivSmallAt(x, k, i, r) ==
    IF i = 0 THEN <<>>
    ELSE BigDivSmallAt(x, k, i - 1, (r * Limb + x[i]) % k) \o <<(r * Limb + x[i]) \div k>>

\* floor(x / 2^s)
BigShr(x, s) ==
    IF s \div 15 >= Len(x) THEN <<>>
    ELSE BigTrim(BigDivSmallAt(SubSeq(x, s \div 15 + 1, Len(x)), 2^(s % 15),
                               Len(x) - s \div 15, 0))

BigBitLen(x) ==
    IF x = <<>> THEN 0
    ELSE 15 * (Len(x) - 1) + CHOOSE k \in 1..15 : 2^k > x[Len(x)] /\ 2^(k - 1) <= x[Len(x)]

\* d r: the digit d put below the digits of r.
BigCons(d, r) == IF r = <<>> /\ d = 0 THEN <<>> ELSE <<d>> \o r

\* Long division by y, one digit of the quotient (Knuth's algorithm D): the
\* highest digit of y is at least 2^14 and r < 2^15 y.  The two highest
\* digits of r over the highest of y is the digit or up to 2 above it.
BigDivFit(r, y, g) ==
    IF BigCmp(BigMulSmall(y, g), r) <= 0 THEN g
    ELSE IF BigCmp(BigMulSmall(y, g - 1), r) <= 0 THEN g - 1
    ELSE g - 2

BigDivStep(q, r, y) ==
    LET guess == Min(Limb - 1,
                     (Digit(r, Len(y) + 1) * Limb + Digit(r, Len(y))) \div y[Len(y)])
        g == BigDivFit(r, y, guess)
    IN  [q |-> BigCons(g, q), r |-> BigSub(r, BigMulSmall(y, g))]

BigDivNext(st, d, y) == BigDivStep(st.q, BigCons(d, st.r), y)

\* Quotient and remainder of the digits i.. of x, highest first.
RECURSIVE BigDivLimbs(_, _, _)
BigDivLimbs(x, y, i) ==
    IF i > Len(x) THEN [q |-> <<>>, r |-> <<>>]
    ELSE BigDivNext(BigDivLimbs(x, y, i + 1), x[i], y)

\* floor(x / y) and x mod y for y > 0; sh is the shift that brings the
\* highest digit of y to 2^14 or more.
BigDivMod(x, y) ==
    LET sh == 15 * Len(y) - BigBitLen(y)
        st == BigDivLimbs(BigShl(x, sh), BigShl(y, sh), 1)
    IN  [q |-> st.q, r |-> BigShr(st.r, sh)]

\* Newton's iteration for floor(sqrt(x)) from a >= floor(sqrt(x)): the next
\* value is b = floor((a + floor(x / a)) / 2), until it no longer decreases.
RECURSIVE BigSqrtFrom(_, _)
BigSqrtFrom(x, a) ==
    LET b == BigShr(BigAdd(a, BigDivMod(x, a).q), 1)
    IN  IF BigCmp(b, a) >= 0 THEN a ELSE BigSqrtFrom(x, b)

\* floor(sqrt(x)) and x - floor(sqrt(x))^2 for x > 0.
BigSqrt(x) ==
    LET q == BigSqrtFrom(x, BigShl(<<1>>, (BigBitLen(x) + 1) \div 2))
    IN  [q |-> q, r |-> BigSub(x, BigMul(q, q))]

\* A finite double: s m 2^e with s = 1 or -1 and m of exactly 53 bits, or
\* m = <<>> for zero.
Float(s, m, e) == [s |-> s, m |-> m, e |-> e]
FZero == Float(1, <<>>, 0)
\* NaN, the result of 0 / 0.
FNaN == Float(0, <<>>, 0)

\* q is the number M cut after 53 bits (k bits dropped): round it on the
\* dropped bits and on whether nonzero bits followed M.
FRoundCut(s, q, M, k, e, sticky) ==
    LET c == BigCmp(BigShl(BigSub(M, BigShl(q, k)), 1), BigShl(<<1>>, k))
    IN  IF c > 0 \/ (c = 0 /\ (sticky \/ q[1] % 2 = 1))
        THEN IF BigBitLen(BigAdd(q, <<1>>)) > 53
             THEN Float(s, BigShr(BigAdd(q, <<1>>), 1), e + k + 1)
             ELSE Float(s, BigAdd(q, <<1>>), e + k)
        ELSE Float(s, q, e + k)

\* The double nearest to s M 2^e (plus something below the last bit of M
\* when sticky), ties to the even mantissa.
FRound(s, M, e, sticky) ==
    IF M = <<>> THEN FZero
    ELSE IF BigBitLen(M) <= 53
         THEN Float(s, BigShl(M, 53 - BigBitLen(M)), e - (53 - BigBitLen(M)))
         ELSE FRoundCut(s, BigShr(M, BigBitLen(M) - 53), M, BigBitLen(M) - 53, e, sticky)

\* float(n) of an integer
FOfInt(n) == FRound(IF n < 0 THEN -1 ELSE 1, BigOfInt(IF n < 0 THEN -n ELSE n), 0, FALSE)

FAbs(a) == Float(a.s * a.s, a.m, a.e)

\* -1, 0, 1 as |a| <, =, > |b|
FCmpAbs(a, b) ==
    IF a.m = <<>> \/ b.m = <<>> THEN (IF a.m # <<>> THEN 1 ELSE IF b.m # <<>> THEN -1 ELSE 0)
    ELSE IF a.e < b.e THEN -1
    ELSE IF a.e > b.e THEN 1
    ELSE BigCmp(a.m, b.m)

\* -1, 0, 1 as a <, =, > b
FCmp(a, b) ==
    IF a.m = <<>> /\ b.m = <<>> THEN 0
    ELSE IF a.m = <<>> THEN -b.s
    ELSE IF b.m = <<>> THEN a.s
    ELSE IF a.s # b.s THEN a.s
    ELSE a.s * FCmpAbs(a, b)

\* a + b on mantissas brought to the exponent e, the lower of the two.
FAddAt(a, b, e) ==
    IF a.s = b.s
    THEN FRound(a.s, BigAdd(BigShl(a.m, a.e - e), BigShl(b.m, b.e - e)), e, FALSE)
    ELSE IF FCmpAbs(a, b) >= 0
    THEN FRound(a.s, BigSub(BigShl(a.m, a.e - e), BigShl(b.m, b.e - e)), e, FALSE)
    ELSE FRound(b.s, BigSub(BigShl(b.m, b.e - e), BigShl(a.m, a.e - e)), e, FALSE)

FAdd(a, b) ==
    IF a.m = <<>> THEN b
    ELSE IF b.m = <<>> THEN a
    ELSE FAddAt(a, b, IF a.e < b.e THEN a.e ELSE b.e)

FSub(a, b) == FAdd(a, Float(-b.s, b.m, b.e))

FMul(a, b) == FRound(a.s * b.s, BigMul(a.m, b.m), a.e + b.e, FALSE)

FDivOf(s, qr, e) == FRound(s, qr.q, e, qr.r # <<>>)

\* a / b for b # 0: 56 or 57 bits of quotient, then rounded.
FDiv(a, b) ==
    IF a.m = <<>> THEN FZero
    ELSE FDivOf(a.s * b.s, BigDivMod(BigShl(a.m, 56), b.m), a.e - b.e - 56)

\* sqrt(a) for a >= 0: at least 55 bits of root, then rounded.
FSqrt(a) ==
    IF a.m = <<>> THEN FZero
    ELSE FDivOf(1, BigSqrt(BigShl(a.m, 58 + (a.e % 2))), (a.e - 58 - (a.e % 2)) \div 2)

\* The integer that format(x, ".<d>f") shows, in units of 10^-d (scale =
\* 10^d): the exact value of the double, rounded half to even.
FormatCut(s, X, q, k) ==
    LET c == BigCmp(BigShl(BigSub(X, BigShl(q, k)), 1), BigShl(<<1>>, k))
    IN  s * (BigToInt(q) + (IF c > 0 \/ (c = 0 /\ Digit(q, 1) % 2 = 1) THEN 1 ELSE 0))

FormatFixed(x, scale) ==
    IF x.m = <<>> THEN 0
    ELSE IF x.e >= 0 THEN x.s * BigToInt(BigShl(BigMulSmall(x.m, scale), x.e))
    ELSE FormatCut(x.s, BigMulSmall(x.m, scale), BigShr(BigMulSmall(x.m, scale), -x.e), -x.e)

----------------------------------------------------------------------------
(* Tables.  A table is [cols, rows]: cols a sequence of distinct names,    *)
(* rows a sequence of tuples aligned with cols.  Row i (1-based here) has  *)
(* the pandas index label i - 1.                                           *)

ColNames(t) == {t.cols[j] : j \in 1..Len(t.cols)}
ColIdx(t, c) == CHOOSE j \in 1..Len(t.cols) : t.cols[j] = c
Column(t, c) == [i \in 1..Len(t.rows) |-> t.rows[i][ColIdx(t, c)]]
IsNa(c) == c.k = "null"

\* pd.to_numeric / pd.to_datetime on one string.
NumStrings == {"1", "2"}
ParseNum(s) == IF s = "1" THEN 1 ELSE 2
DateStrings == {"2024-01-11", "2024-01-12", "2024-01-15", "2024-01-19"}
ParseDate(s) ==
    CASE s = "2024-01-11" -> 1
      [] s = "2024-01-12" -> 2
      [] s = "2024-01-15" -> 5
      [] s = "2024-01-19" -> 9

\* Whether float(c) succeeds (astype(float), ensure_float64, sklearn's
\* check_array): on a number, on a missing value (NaN) and on text that
\* reads as a number; not on other text, not on a Timestamp.
Floatable(c) == c.k \in {"num", "null"} \/ (c.k = "str" /\ c.s \in NumStrings)
NumOf(c) == IF c.k = "str" THEN ParseNum(c.s) ELSE c.n

\* float(c) of a cell.
ToFloat(c) == IF Floatable(c) /\ ~IsNa(c) THEN Rat(NumOf(c), 1) ELSE NaN

\* The dtype pd.DataFrame(data) gives a column: float64/int64 when every
\* value is a number or None (and some value is a number), else object.
RawDtype(col) ==
    IF /\ \A i \in 1..Len(col) : col[i].k \in {"num", "null"}
       /\ \E i \in 1..Len(col) : col[i].k = "num"
    THEN "numeric" ELSE "object"

\* The Timestamp pd.to_datetime / DatetimeIndex make of one value: an
\* integer counts nanoseconds from 1970-01-01, a date string is parsed.
TimeOf(c) ==
    IF c.k = "num" THEN Stamp(c.n)
    ELSE IF c.k = "str" THEN Date(ParseDate(c.s))
    ELSE c

\* Lines 47-59 on one column: an object column is cast to numbers when every
\* non-missing value parses as one, else to datetimes when pd.to_datetime
\* accepts it, else left as it is.  pd.to_datetime takes the format from
\* the first non-missing value when that is a string, and then every value
\* must be a string of that format; when it is a number no format is
\* inferred and the values are converted one by one, numbers included.
CoerceColumn(col) ==
    LET nonNull == {i \in 1..Len(col) : ~IsNa(col[i])}
        numOk == \A i \in nonNull :
                    col[i].k = "num" \/ (col[i].k = "str" /\ col[i].s \in NumStrings)
        first == CHOOSE i \in nonNull : \A j \in nonNull : i <= j
        dateOk == \A i \in nonNull :
                     \/ col[i].k = "str" /\ col[i].s \in DateStrings
                     \/ col[i].k = "num" /\ col[first].k = "num"
    IN  IF RawDtype(col) = "numeric" THEN [dtype |-> "numeric", vals |-> col]
        ELSE IF numOk THEN
            [dtype |-> "numeric",
             vals |-> [i \in 1..Len(col) |->
                         IF IsNa(col[i]) THEN Null
                         ELSE IF col[i].k = "num" THEN col[i]
                         ELSE Num(ParseNum(col[i].s))]]
        ELSE IF dateOk THEN
            [dtype |-> "datetime", vals |-> [i \in 1..Len(col) |-> TimeOf(col[i])]]
        ELSE [dtype |-> "object", vals |-> col]

\* _coerce_dataframe: the typed table [cols, rows, dtype].
CoerceDataframe(data) ==
    LET cc == [j \in 1..Len(data.cols) |-> CoerceColumn(Column(data, data.cols[j]))]
    IN  [cols |-> data.cols,
         rows |-> [i \in 1..Len(data.rows) |->
                     [j \in 1..Len(data.cols) |-> cc[j].vals[i]]],
         dtype |-> [c \in ColNames(data) |-> cc[ColIdx(data, c)].dtype]]

\* df.empty: some axis has length 0.
DfEmpty(df) == Len(df.rows) = 0 \/ Len(df.cols) = 0

\* df.select_dtypes(include=...).columns.tolist(), in column order.
\* Variant that keeps every column whatever its dtype.
SelectDtypes_All(df, dt) == df.cols
\* The code: only the columns of dtype dt.
SelectDtypes(df, dt) ==
    FilterIdx(df.cols, LAMBDA j : df.dtype[df.cols[j]] = dt, 1)

----------------------------------------------------------------------------
(* Sorting.  sort_values() defaults to kind="quicksort", which is numpy's  *)
(* argsort: an introsort (npysort/quicksort.cpp aquicksort_, heapsort.cpp  *)
(* aheapsort_; the scalar code, not a vectorised build).  It is not        *)
(* stable: which of several equal keys comes first follows from the steps  *)
(* below.  v[i] is the integer rank of key i, a the permutation being      *)
(* sorted, pl..pr the range worked on (1-based).                           *)

SMALL_QUICKSORT == 16   \* a range of at most 17 entries is insertion-sorted

\* npy_get_msb(n): the position of the highest set bit.
Msb(n) == IF n < 2 THEN 0 ELSE CHOOSE k \in 1..30 : 2^k <= n /\ n < 2^(k + 1)

Swap(a, i, j) == [a EXCEPT ![i] = a[j], ![j] = a[i]]
SwapIfLess(a, v, i, j) == IF v[a[i]] < v[a[j]] THEN Swap(a, i, j) ELSE a

\* The three conditional swaps that leave the median of a[pl], a[pm], a[pr]
\* at pm.
MedianOfThree(a, v, pl, pm, pr) ==
    SwapIfLess(SwapIfLess(SwapIfLess(a, v, pm, pl), v, pr, pm), v, pm, pl)

\* do ++pi while v[a[pi]] < vp   and   do --pj while vp < v[a[pj]].
ScanUp(a, v, vp, pi) ==
    CHOOSE i \in (pi + 1)..Len(a) :
        v[a[i]] >= vp /\ \A t \in (pi + 1)..(i - 1) : v[a[t]] < vp
ScanDown(a, v, vp, pj) ==
    CHOOSE j \in 1..(pj - 1) :
        v[a[j]] <= vp /\ \A t \in (j + 1)..(pj - 1) : v[a[t]] > vp

\* The partition loop: scan, stop when the scans meet, else swap and go on.
RECURSIVE PartitionLoop(_, _, _, _, _)
PartitionAt(a, v, vp, pi, pj) ==
    IF pi >= pj THEN [a |-> a, pi |-> pi]
    ELSE PartitionLoop(Swap(a, pi, pj), v, vp, pi, pj)
PartitionLoop(a, v, vp, pi, pj) ==
    PartitionAt(a, v, vp, ScanUp(a, v, vp, pi), ScanDown(a, v, vp, pj))

\* The median goes to pm, the pivot is parked at pr - 1, the loop runs, the
\* pivot goes to pi.
Partition(a, v, pl, pm, pr) ==
    LET a3 == MedianOfThree(a, v, pl, pm, pr)
        p == PartitionLoop(Swap(a3, pm, pr - 1), v, v[a3[pm]], pl, pr - 1)
    IN  [a |-> Swap(p.a, p.pi, pr - 1), pi |-> p.pi]

\* Insertion sort of pl..pr: entry pi moves left past every larger entry.
InsertPos(a, v, pl, pi) ==
    CHOOSE q \in pl..pi :
        /\ \A t \in q..(pi - 1) : v[a[pi]] < v[a[t]]
        /\ q = pl \/ v[a[pi]] >= v[a[q - 1]]
InsertTo(a, q, pi) ==
    SubSeq(a, 1, q - 1) \o <<a[pi]>> \o SubSeq(a, q, pi - 1) \o SubSeq(a, pi + 1, Len(a))
RECURSIVE InsertionSort(_, _, _, _, _)
InsertionSort(a, v, pl, pr, pi) ==
    IF pi > pr THEN a
    ELSE InsertionSort(InsertTo(a, InsertPos(a, v, pl, pi), pi), v, pl, pr, pi + 1)

\* aheapsort_ on the n entries after position off: tmp sinks from slot i,
\* whose children start at slot j.
RECURSIVE Sift(_, _, _, _, _, _, _)
SiftAt(a, v, tmp, i, j, n, off) ==
    IF v[tmp] < v[a[off + j]]
    THEN Sift([a EXCEPT ![off + i] = a[off + j]], v, tmp, j, j + j, n, off)
    ELSE [a EXCEPT ![off + i] = tmp]
Sift(a, v, tmp, i, j, n, off) ==
    IF j > n THEN [a EXCEPT ![off + i] = tmp]
    ELSE SiftAt(a, v, tmp, i,
                IF j < n /\ v[a[off + j]] < v[a[off + j + 1]] THEN j + 1 ELSE j, n, off)

\* for (l = n >> 1; l > 0; --l): build the heap.  st is [a, n]: the
\* permutation and the loop counter.
RECURSIVE Heapify(_, _, _, _)
Heapify(st, v, n, off) ==
    IF st.n = 0 THEN st.a
    ELSE Heapify([a |-> Sift(st.a, v, st.a[off + st.n], st.n, st.n + st.n, n, off),
                  n |-> st.n - 1], v, n, off)

\* for (; n > 1;): the top goes to slot n, the entry of slot n sinks from
\* the top of the heap of n - 1.
RECURSIVE HeapExtract(_, _, _)
HeapExtract(st, v, off) ==
    IF st.n <= 1 THEN st.a
    ELSE HeapExtract([a |-> Sift([st.a EXCEPT ![off + st.n] = st.a[off + 1]], v,
                                 st.a[off + st.n], 1, 2, st.n - 1, off),
                      n |-> st.n - 1], v, off)

Heapsort(a, v, pl, pr) ==
    HeapExtract([a |-> Heapify([a |-> a, n |-> (pr - pl + 1) \div 2], v, pr - pl + 1, pl - 1),
                 n |-> pr - pl + 1],
                v, pl - 1)

\* The main loop.  A range longer than 17 is partitioned; the smaller part
\* is worked on at once (QuickInner), the larger one is pushed and, when it
\* is popped, handed to heapsort if the depth budget cdepth is used up
\* (QuickTop).  The two parts are disjoint, so the order they are worked in
\* does not change the result.
RECURSIVE QuickTop(_, _, _, _, _), QuickInner(_, _, _, _, _)
QuickSplit(p, v, pl, pr, cdepth) ==
    IF p.pi - pl < pr - p.pi
    THEN QuickTop(QuickInner(p.a, v, pl, p.pi - 1, cdepth), v, p.pi + 1, pr, cdepth)
    ELSE QuickTop(QuickInner(p.a, v, p.pi + 1, pr, cdepth), v, pl, p.pi - 1, cdepth)
QuickInner(a, v, pl, pr, cdepth) ==
    IF pr - pl > SMALL_QUICKSORT
    THEN QuickSplit(Partition(a, v, pl, pl + (pr - pl) \div 2, pr), v, pl, pr, cdepth - 1)
    ELSE InsertionSort(a, v, pl, pr, pl + 1)
QuickTop(a, v, pl, pr, cdepth) ==
    IF cdepth < 0 THEN Heapsort(a, v, pl, pr) ELSE QuickInner(a, v, pl, pr, cdepth)

\* np.argsort(v, kind="quicksort"): the positions of v in ascending order
\* of v.  The depth budget is twice the position of the highest bit of
\* the length.
Argsort(v) ==
    IF Len(v) = 0 THEN <<>>
    ELSE QuickTop(SubSeq([i \in 1..Len(v) |-> i], 1, Len(v)), v, 1, Len(v),
                  2 * Msb(Len(v)))

Reverse(s) == [i \in 1..Len(s) |-> s[Len(s) + 1 - i]]

----------------------------------------------------------------------------
(* forecast (lines 169-208) *)

STEPS == 12           \* res.forecast(steps=12), range(12), "steps": 12
ARIMA_MIN_POINTS == 8 \* len(ts) >= 8

\* Lines 178-181: the caller's column when one is named (None and "" are
\* both falsy), else the first datetime column, else None.
TimeAxis(df, date_column) ==
    IF date_column.some /\ date_column.val # "" THEN date_column
    ELSE LET dt_candidates == SelectDtypes(df, "datetime")
         IN  IF dt_candidates # <<>> THEN Some(dt_candidates[1]) ELSE NoneStr

\* Timestamps in time order: a Stamp lies within a day of 1970-01-01, every
\* Date in 2024.
TimeLess(a, b) == IF a.s = b.s THEN a.n < b.n ELSE a.s = "ns"

\* sort_values(dt_col) on [t, x] pairs: the rows in the order numpy's
\* argsort gives their timestamps.
TimeRanks(s) ==
    SubSeq([i \in 1..Len(s) |-> Cardinality({j \in 1..Len(s) : TimeLess(s[j].t, s[i].t)})],
           1, Len(s))
SortWith(s, order) == [i \in 1..Len(s) |-> s[order[i]]]
SortByTime(s) == SortWith(s, Argsort(TimeRanks(s)))

\* Monday = 0.  Day 0 is Wednesday 2024-01-10.
Weekday(day) == (day + 2) % 7

\* The days from 1970-01-01 to day 0: 54 years, 13 of them leap, and 9 days.
EpochDay == 54 * 365 + 13 + 9

\* pandas _FrequencyInferer on sorted Dates that all lie inside one month,
\* none on its first or last (business) day: the annual, quarterly, monthly
\* and week-of-month rules never match there.
\*   one delta k             -> "kD" ("W-xxx" multiples when 7 divides k)
\*   deltas {1,3}, Fri->Mon  -> "B"
\*   otherwise               -> None
InferDaily(days) ==
    LET n == Len(days)
        shifts == [i \in 1..(n - 1) |-> days[i + 1] - days[i]]
        deltas == {shifts[i] : i \in 1..(n - 1)}
        businessDaily ==
            /\ deltas = {1, 3}
            /\ \A i \in 1..(n - 1) :
                 LET wd == Weekday(days[i + 1])
                 IN  \/ wd = 0 /\ shifts[i] = 3
                     \/ wd > 0 /\ wd <= 4 /\ shifts[i] = 1
    IN  IF Cardinality(deltas) = 1 THEN
            [raised |-> FALSE, kind |-> "D", step |-> CHOOSE k \in deltas : TRUE]
        ELSE IF businessDaily THEN [raised |-> FALSE, kind |-> "B", step |-> 1]
        ELSE [raised |-> FALSE, kind |-> "None", step |-> 0]

\* pd.infer_freq on sorted timestamps.
\*   fewer than 3             -> ValueError
\*   a repeated timestamp     -> None
\*   Dates only               -> the daily rules above
\*   Stamps only, one delta k -> "k ns"
\*   otherwise (uneven Stamps, or Stamps and Dates: the deltas differ and
\*   the smallest is no whole day, or the years differ)  -> None
InferFreq(times) ==
    LET n == Len(times)
        deltas == {times[i + 1].n - times[i].n : i \in 1..(n - 1)}
    IN  IF n < 3 THEN [raised |-> TRUE, kind |-> "None", step |-> 0]
        ELSE IF Cardinality({times[i] : i \in 1..n}) # n THEN
            [raised |-> FALSE, kind |-> "None", step |-> 0]
        ELSE IF \A i \in 1..n : times[i].s = "" THEN
            InferDaily([i \in 1..n |-> times[i].n])
        ELSE IF (\A i \in 1..n : times[i].s = "ns") /\ Cardinality(deltas) = 1 THEN
            [raised |-> FALSE, kind |-> "ns", step |-> CHOOSE k \in deltas : TRUE]
        ELSE [raised |-> FALSE, kind |-> "None", step |-> 0]

\* pd.date_range(lo, hi, freq=freq) between two Dates, as day numbers; freq
\* None defaults to "D".
DateRange(lo, hi, freq) ==
    LET step == IF freq.kind = "D" THEN freq.step ELSE 1
        grid == [i \in 1..((hi - lo) \div step + 1) |-> lo + (i - 1) * step]
    IN  IF freq.kind = "B"
        THEN FilterIdx(grid, LAMBDA i : Weekday(grid[i]) <= 4, 1)
        ELSE grid

\* The observation of s at timestamp t, NaN when there is none.
ValueAt(s, t) ==
    IF \E i \in 1..Len(s) : s[i].t = t
    THEN s[CHOOSE i \in 1..Len(s) : s[i].t = t].x
    ELSE Null

\* Reindexing on a daily range that starts at a Stamp: the range holds the
\* Stamp plus whole days up to the last timestamp.  The first observation
\* is on it; a Date is on it only when the Stamp is midnight (n = 0); a
\* later Stamp is less than a day after the first and is not on it.
DailyFromStamp(s) ==
    LET last == s[Len(s)].t
        days == IF last.s = "ns" THEN 1
                ELSE EpochDay + last.n + (IF s[1].t.n > 0 THEN 0 ELSE 1)
    IN  [j \in 1..days |->
            IF j = 1 THEN s[1].x
            ELSE IF s[1].t.n = 0 THEN ValueAt(s, Date(j - 1 - EpochDay))
            ELSE Null]

\* Series.asfreq(freq) on a non-empty sorted series of [t, x]: reindex on the
\* date range from the first to the last timestamp; a timestamp of the range
\* with no observation gets NaN.  Reindexing a series with a repeated label
\* raises ValueError.
Asfreq(s, freq) ==
    LET dti == DateRange(s[1].t.n, s[Len(s)].t.n, freq)
    IN  IF Cardinality({s[i].t : i \in 1..Len(s)}) # Len(s) THEN
            [raised |-> TRUE, vals |-> <<>>]
        ELSE IF freq.kind = "ns" THEN
            [raised |-> FALSE, vals |-> [j \in 1..Len(s) |-> s[j].x]]
        ELSE IF s[1].t.s = "ns" THEN [raised |-> FALSE, vals |-> DailyFromStamp(s)]
        ELSE [raised |-> FALSE,
              vals |-> [j \in 1..Len(dti) |-> ValueAt(s, Date(dti[j]))]]

\* Line 185 on the rows kept by line 184: infer the frequency of the sorted
\* timestamps and reindex on it.  When the index holds Timestamps (labelled)
\* the observations land on the range; an object index holds the raw
\* numbers or strings, none of which equals a Timestamp of the range, and
\* every value of the result is NaN.
Resample(ts, labelled) ==
    LET freq == InferFreq([i \in 1..Len(ts) |-> ts[i].t])
        re == Asfreq(ts, freq)
    IN  IF freq.raised \/ re.raised
        THEN [raised |-> TRUE, exc |-> "ValueError", vals |-> <<>>]
        ELSE [raised |-> FALSE, exc |-> "",
              vals |-> IF labelled THEN re.vals ELSE [j \in 1..Len(re.vals) |-> Null]]

\* Lines 183-189: the series ts the strategies run on, as its values in
\* index order, or the exception that leaves the handler.  df[target] on a
\* name that is no column raises KeyError.  When the time column is the
\* target itself, df[[dt_col, target]] has the label twice and
\* sort_values(dt_col) raises ValueError (line 184).  infer_freq raises
\* TypeError on a numeric column.  On an object column sort_values raises
\* TypeError when the kept values mix numbers and strings, and infer_freq
\* raises a parse error (a ValueError) on a string that is no date.
BuildSeries(df, target, dt_col) ==
    IF target \notin ColNames(df) THEN
        [raised |-> TRUE, exc |-> "KeyError", vals |-> <<>>]
    ELSE IF dt_col.some /\ dt_col.val = target THEN
        [raised |-> TRUE, exc |-> "ValueError", vals |-> <<>>]
    ELSE IF dt_col.some /\ dt_col.val \in ColNames(df) THEN
        LET tcol == Column(df, dt_col.val)
            xcol == Column(df, target)
            kept == FilterIdx([i \in 1..Len(df.rows) |-> [t |-> tcol[i], x |-> xcol[i]]],
                              LAMBDA i : ~IsNa(tcol[i]) /\ ~IsNa(xcol[i]), 1)
            kinds == {kept[i].t.k : i \in 1..Len(kept)}
        IN  IF df.dtype[dt_col.val] = "numeric" THEN
                [raised |-> TRUE, exc |-> "TypeError", vals |-> <<>>]
            ELSE IF df.dtype[dt_col.val] = "datetime" THEN
                Resample(SortByTime(kept), TRUE)
            ELSE IF kinds = {"num", "str"} THEN
                [raised |-> TRUE, exc |-> "TypeError", vals |-> <<>>]
            ELSE IF \E i \in 1..Len(kept) :
                        kept[i].t.k = "str" /\ kept[i].t.s \notin DateStrings THEN
                [raised |-> TRUE, exc |-> "ValueError", vals |-> <<>>]
            ELSE
                Resample(SortByTime([i \in 1..Len(kept) |->
                                       [t |-> TimeOf(kept[i].t), x |-> kept[i].x]]), FALSE)
    ELSE
        LET xcol == Column(df, target)
        IN  [raised |-> FALSE, exc |-> "",
             vals |-> FilterIdx(xcol, LAMBDA i : ~IsNa(xcol[i]), 1)]

\* Lines 195 and 204: ts.astype(float) and the float64 conversion of
\* rolling() raise on a datetime series and on a value float() rejects.
AsFloatRaises(ts, dtype) ==
    dtype = "datetime" \/ \E i \in 1..Len(ts) : ~Floatable(ts[i])

\* Line 203.
Window(n) == IF n >= 2 THEN Min(5, Max(2, n \div 4)) ELSE 2

\* ts.rolling(window=w).mean().dropna(): one mean per position whose last w
\* values are all present.
RollingMean(ts, w) ==
    LET full == {i \in w..Len(ts) : \A j \in (i - w + 1)..i : ~IsNa(ts[j])}
        at == [k \in 1..Cardinality(full) |->
                 CHOOSE i \in full : Cardinality({j \in full : j <= i}) = k]
    IN  [k \in 1..Cardinality(full) |->
            Rat(SumSeq([j \in 1..w |-> NumOf(ts[at[k] - w + j])]), w)]

\* Lines 203-206: the moving-average projection.  rolling().mean() raises
\* DataError when the values cannot be made float64.  iloc[-1] on an empty
\* series raises IndexError.  Both leave the handler: they are raised inside
\* the except block.
Fallback(ts, dtype) ==
    LET window == Window(Len(ts))
        ma == RollingMean(ts, window)
    IN  IF AsFloatRaises(ts, dtype) THEN
            [raised |-> TRUE, exc |-> "DataError", values |-> <<>>]
        ELSE IF Len(ma) = 0 /\ Len(ts) = 0 THEN
            [raised |-> TRUE, exc |-> "IndexError", values |-> <<>>]
        ELSE LET last == IF Len(ma) > 0 THEN ma[Len(ma)] ELSE ToFloat(ts[Len(ts)])
             IN  [raised |-> FALSE, exc |-> "", values |-> [i \in 1..STEPS |-> last]]

\* Line 194: whether the ARIMA branch is taken.
TryArima(smAvailable, ts) == smAvailable /\ Len(ts) >= ARIMA_MIN_POINTS

\* What sm.tsa.ARIMA(...).fit().forecast(steps=12) can do: raise, or give 12
\* numbers.  The numbers are the library's; two of them stand for the rest.
ArimaOutcomes ==
    {[raised |-> TRUE, values |-> <<>>]} \cup
    {[raised |-> FALSE, values |-> [i \in 1..STEPS |-> IF i = 1 THEN Rat(a, 1) ELSE Rat(b, 1)]] :
        a \in {0, 7}, b \in {0, 7}}

\* Variant of the guard at line 175 that tests df.empty only.
MissingTarget_EmptyOnly(df, target) == DfEmpty(df)
\* Line 175: df.empty or target not in df.columns.
MissingTarget(df, target) == DfEmpty(df) \/ target \notin ColNames(df)

\* Replies.
NoResp ==
    [status |-> "none", exc |-> "", message |-> "", forecast |-> <<>>, steps |-> 0,
     anomalies |-> <<>>, insights |-> <<>>, row_count |-> 0, column_count |-> 0,
     trace |-> {}]
Raise(exc, trace) == [NoResp EXCEPT !.status = "raised", !.exc = exc, !.trace = trace]

\* The handler, lines 170-208.  trace records the steps that ran.
ForecastHandler(r, smAvailable, arima) ==
    LET df == CoerceDataframe(r.data)
        target == r.target_column
    IN  IF MissingTarget(df, target) THEN
            [NoResp EXCEPT !.status = "ok", !.message = "No data or missing target.",
                           !.trace = {"guard"}]
        ELSE
            LET dt_col == TimeAxis(df, r.date_column)
                built == BuildSeries(df, target, dt_col)
                ts == built.vals
                dtype == df.dtype[target]
                tryPrimary == TryArima(smAvailable, ts)
                primaryRaised == tryPrimary /\ (AsFloatRaises(ts, dtype) \/ arima.raised)
                fb == Fallback(ts, dtype)
                t1 == {"guard", "time_axis", "series"}
                t2 == t1 \cup (IF tryPrimary THEN {"primary"} ELSE {})
                t3 == t2 \cup (IF primaryRaised THEN {"primary_raised"} ELSE {})
            IN  IF built.raised THEN Raise(built.exc, t1)
                ELSE IF tryPrimary /\ ~primaryRaised THEN
                    [NoResp EXCEPT !.status = "ok", !.forecast = arima.values,
                                   !.steps = STEPS, !.trace = t3]
                ELSE IF fb.raised THEN Raise(fb.exc, t3 \cup {"fallback"})
                ELSE [NoResp EXCEPT !.status = "ok", !.forecast = fb.values,
                                    !.steps = STEPS, !.trace = t3 \cup {"fallback"}]

----------------------------------------------------------------------------
(* anomaly (lines 210-239) *)

Z_THRESHOLD == 3      \* np.abs(z) > 3

\* Line 216: the caller's list unless it is None or empty (both falsy), else
\* the numeric columns of the table.
NumericCols(df, numeric_columns) ==
    IF numeric_columns.some /\ numeric_columns.val # <<>> THEN numeric_columns.val
    ELSE SelectDtypes(df, "numeric")

\* Line 220, df[numeric_cols].dropna(): the rows (1-based positions in df)
\* with a value in every selected column, in order.  X.index[j] is
\* DropnaRows(...)[j] - 1.
DropnaRows(df, cols) ==
    FilterIdx([i \in 1..Len(df.rows) |-> i],
              LAMBDA i : \A j \in 1..Len(cols) : ~IsNa(Column(df, cols[j])[i]), 1)

\* X.index[mask].tolist(): the index labels of the selected positions of X.
\* Variant that returns positions inside X instead of its labels.
IndexLabels_Positional(xrows, positions) ==
    LET sel == FilterIdx([j \in 1..Len(xrows) |-> j], LAMBDA j : j \in positions, 1)
    IN  [j \in 1..Len(sel) |-> sel[j] - 1]
\* The code: the labels X kept from df (dropna keeps the original index).
IndexLabels(xrows, positions) ==
    LET sel == FilterIdx(xrows, LAMBDA j : j \in positions, 1)
    IN  [j \in 1..Len(sel) |-> sel[j] - 1]

\* Line 235-236 on one column of X, x its integer values:
\*   |x[j] - mean| / (std(ddof=0) + 1e-9) > 3.
\* With n = len(x), S = sum(x), d = |n x[j] - S| and Q = n sum(x^2) - S^2 this
\* is d / (sqrt(Q) + n 1e-9) > 3.  d and Q are integers, so for 6 n d < 10^9
\* (all inputs explored) it is d^2 > 9 Q; a constant column (Q = 0) has d = 0
\* and z = 0.
\* Variant that compares the deviation from the mean with 3, unscaled.
ZExceeds_Unscaled(x, j) ==
    Abs(Len(x) * x[j] - SumSeq(x)) > Z_THRESHOLD * Len(x)
\* The code: d^2 > 9 Q.
ZExceeds(x, j) ==
    LET n == Len(x)
        S == SumSeq(x)
        Q == n * SumSeq([i \in 1..n |-> x[i] * x[i]]) - S * S
        d == Abs(n * x[j] - S)
    IN  d * d > Z_THRESHOLD * Z_THRESHOLD * Q

\* Lines 235-237: positions of X with some column beyond the threshold.
ZScoreMask(df, cols, xrows) ==
    {j \in 1..Len(xrows) :
        \E c \in 1..Len(cols) :
            ZExceeds([i \in 1..Len(xrows) |-> Column(df, cols[c])[xrows[i]].n], j)}

\* The cells of X: the selected columns on the kept rows.
CellsOf(df, cols, xrows) ==
    {Column(df, cols[c])[xrows[i]] : c \in 1..Len(cols), i \in 1..Len(xrows)}

\* fit(X) casts the values of X to float32.  A frame of datetime columns
\* only is one datetime64 array and is cast to its nanosecond counts; text
\* that does not read as a number raises ValueError; Timestamps next to
\* values of another kind make an object array (or have no common dtype),
\* and the cast raises TypeError.
FitRaises(df, cols, xrows) ==
    LET cells == CellsOf(df, cols, xrows)
    IN  \/ \E c \in cells : c.k = "str" /\ c.s \notin NumStrings
        \/ (\E c \in cells : c.k = "date") /\ (\E c \in cells : c.k # "date")

\* Lines 235-236 do arithmetic on the values of X as they are: X.mean(),
\* the subtraction or np.abs raise TypeError on a string (one that reads as
\* a number included) and on a Timestamp.
ZScoreRaises(df, cols, xrows) == \E c \in CellsOf(df, cols, xrows) : c.k # "num"

\* What IsolationForest(random_state=42).fit(X).predict(X) can mark -1 on
\* the rows x of X, once fit has accepted them.  The forest is not computed
\* here; every set of positions is admitted that these facts allow:
\*   predict is a function of the row's values, so equal rows are marked
\*   alike;
\*   with one row the score is 0.5 by definition, and with two rows every
\*   tree is a leaf of 2 or parts them at depth 1, a path length of exactly
\*   1 over c(2) = 1: decision_function is 0 and no row is marked;
\*   when all n >= 3 rows are equal every tree is one leaf of n, and the
\*   score is 2 ** -(depths / (100 c(n))), depths the float64 sum of 100
\*   terms (1 + c(n)) - 1.0 and c(n) = 2 (ln(n - 1) + 0.5772156649015329)
\*   - 2 (n - 1) / n.  The two differ in their last bits: where the sum is
\*   the smaller the score is above 0.5 and every row is marked, otherwise
\*   none is.  below lists the n up to 24 whose sum is the smaller, the
\*   same whichever way the last bit of c(n) is rounded; above 24 the
\*   outcome can turn on that bit and both are admitted.
IForestOutcomes(x) ==
    LET n == Len(x)
        equal == \A i, j \in 1..n : x[i] = x[j]
        below == {4, 7, 10, 11, 13, 18, 19, 20, 22, 23, 24}
    IN  {A \in SUBSET (1..n) :
            /\ \A i \in A : \A j \in 1..n : x[j] = x[i] => j \in A
            /\ n <= 2 => A = {}
            /\ (equal /\ n <= 24 /\ n \notin below) => A = {}
            /\ (equal /\ n \in below) => A = 1..n}

\* The handler, lines 211-239.  iforest is the set of positions of X that
\* the fitted forest marks -1, used when fit and predict are reached.
AnomalyHandler(r, iforestAvailable, iforest) ==
    LET df == CoerceDataframe(r.data)
        ok(list, trace) == [NoResp EXCEPT !.status = "ok", !.anomalies = list, !.trace = trace]
    IN  IF DfEmpty(df) THEN ok(<<>>, {"empty"})
        ELSE
            LET numeric_cols == NumericCols(df, r.numeric_columns)
                known == \A j \in 1..Len(numeric_cols) : numeric_cols[j] \in ColNames(df)
                X == DropnaRows(df, numeric_cols)
                primaryRaised == ~iforestAvailable \/ FitRaises(df, numeric_cols, X)
            IN  IF numeric_cols = <<>> THEN ok(<<>>, {"no_columns"})
                ELSE IF ~known THEN Raise("KeyError", {"subset"})
                ELSE IF X = <<>> THEN ok(<<>>, {"subset"})
                ELSE IF ~primaryRaised THEN
                    ok(IndexLabels(X, iforest), {"subset", "primary"})
                ELSE IF ZScoreRaises(df, numeric_cols, X) THEN
                    Raise("TypeError", {"subset", "primary", "fallback"})
                ELSE ok(IndexLabels(X, ZScoreMask(df, numeric_cols, X)),
                        {"subset", "primary", "fallback"})

----------------------------------------------------------------------------
(* insights (lines 62-113) *)

STATS_COLS == 10        \* numeric_cols[:10]
OUTLIER_COLS == 5       \* numeric_cols[:5]
TREND_MIN_POINTS == 4   \* len(ts) >= 4
OUTLIER_MIN_POINTS == 8 \* len(s) < 8: continue

RECURSIVE InsertInt(_, _)
InsertInt(s, e) ==
    IF s = <<>> THEN <<e>>
    ELSE IF e < Head(s) THEN <<e>> \o s
    ELSE <<Head(s)>> \o InsertInt(Tail(s), e)

RECURSIVE SortInts(_)
SortInts(s) ==
    IF s = <<>> THEN <<>> ELSE InsertInt(SortInts(Tail(s)), Head(s))

\* round(100 * sqrt(Q) / n) for integers Q >= 0, n > 0: the hundredths that
\* ".2f" shows of s.std(ddof=0) = sqrt(Q) / n.  100 sqrt(Q) / n lies halfway
\* between two integers only when 64 divides n, so below 64 values the
\* rounding of the double and of the exact value agree.
RoundSqrt100(Q, n) ==
    CHOOSE k \in 0..((100 * Q) \div n + 1) :
        /\ k = 0 \/ (2 * k - 1) * (2 * k - 1) * n * n <= 40000 * Q
        /\ 40000 * Q < (2 * k + 1) * (2 * k + 1) * n * n

\* s = df[col].dropna() as integers, in row order.
Present(df, col) ==
    LET c == Column(df, col)
        kept == FilterIdx(c, LAMBDA i : ~IsNa(c[i]), 1)
    IN  [i \in 1..Len(kept) |-> kept[i].n]

Insight(kind, col, col2, v) ==
    [kind |-> kind, col |-> col, col2 |-> col2, mean |-> 0, median |-> 0,
     std |-> 0, min |-> 0, max |-> 0, value |-> v]

\* s.mean(): the sum of the values (exact in a double) divided by their
\* count, one rounded division.
Mean(x) == FDiv(FOfInt(SumSeq(x)), FOfInt(Len(x)))

\* Line 80: mean, median, std(ddof=0), min, max of a non-empty column, each as
\* the integer number of hundredths its ".2f" text shows.  The median of
\* integers is a multiple of 1/2 and min and max are integers: exact.
ColumnStats(col, x) ==
    LET n == Len(x)
        S == SumSeq(x)
        sorted == SortInts(x)
        Q == n * SumSeq([i \in 1..n |-> x[i] * x[i]]) - S * S
        med2 == IF n % 2 = 1 THEN 2 * sorted[(n + 1) \div 2]
                ELSE sorted[n \div 2] + sorted[n \div 2 + 1]
    IN  [Insight("stats", col, "", 0) EXCEPT
            !.mean = FormatFixed(Mean(x), 100), !.median = 50 * med2,
            !.std = RoundSqrt100(Q, n), !.min = 100 * sorted[1], !.max = 100 * sorted[n]]

\* Lines 76-81.
StatsInsights(df, numeric_cols) ==
    LET first == SubSeq(numeric_cols, 1, Min(STATS_COLS, Len(numeric_cols)))
        present == [j \in 1..Len(first) |-> Present(df, first[j])]
        some == FilterIdx([j \in 1..Len(first) |-> j], LAMBDA j : Len(present[j]) # 0, 1)
    IN  [j \in 1..Len(some) |-> ColumnStats(first[some[j]], present[some[j]])]

\* Line 91: ((last - first) / (first if first else 1)) * 100, a rounded
\* division and a rounded product.
Change(first, last) ==
    FMul(FDiv(FOfInt(last - first), FOfInt(IF first # 0 THEN first ELSE 1)), FOfInt(100))

\* Lines 84-92: percent change between the first and the last point in time
\* order, in tenths of a percent as ".1f" shows it.
TrendInsights(df, numeric_cols) ==
    LET dt_cols == SelectDtypes(df, "datetime")
    IN  IF dt_cols = <<>> \/ numeric_cols = <<>> THEN <<>>
        ELSE
            LET tcol == Column(df, dt_cols[1])
                xcol == Column(df, numeric_cols[1])
                kept == FilterIdx([i \in 1..Len(df.rows) |-> [t |-> tcol[i], x |-> xcol[i].n]],
                                  LAMBDA i : ~IsNa(tcol[i]) /\ ~IsNa(xcol[i]), 1)
                ts == SortByTime(kept)
                first == ts[1].x
                last == ts[Len(ts)].x
            IN  IF Len(ts) >= TREND_MIN_POINTS
                THEN <<Insight("trend", numeric_cols[1], "",
                               FormatFixed(Change(first, last), 10))>>
                ELSE <<>>

\* DataFrame.corr() is pandas' nancorr: for the columns x (the later one)
\* and y (the earlier one, or x itself), Welford's update over the rows
\* where both are present, in doubles.
NancorrInit ==
    [nobs |-> 0, meanx |-> FZero, meany |-> FZero,
     ssqdm_x |-> FZero, ssqdm_y |-> FZero, covxy |-> FZero]

\*   ssqdm_x += (vx - meanx) * dx;  ssqdm_y += (vy - meany) * dy
\*   covxy += (vx - meanx) * dy
NancorrSums(st, vx, vy, dx, dy, meanx, meany) ==
    [nobs |-> st.nobs + 1, meanx |-> meanx, meany |-> meany,
     ssqdm_x |-> FAdd(st.ssqdm_x, FMul(FSub(vx, meanx), dx)),
     ssqdm_y |-> FAdd(st.ssqdm_y, FMul(FSub(vy, meany), dy)),
     covxy |-> FAdd(st.covxy, FMul(FSub(vx, meanx), dy))]

\*   meanx += 1. / nobs * dx;  meany += 1. / nobs * dy
NancorrMeans(st, vx, vy, dx, dy, inv) ==
    NancorrSums(st, vx, vy, dx, dy,
                FAdd(st.meanx, FMul(inv, dx)), FAdd(st.meany, FMul(inv, dy)))

\*   nobs += 1;  dx = vx - meanx;  dy = vy - meany
NancorrStep(st, vx, vy) ==
    NancorrMeans(st, vx, vy, FSub(vx, st.meanx), FSub(vy, st.meany),
                 FDiv(FOfInt(1), FOfInt(st.nobs + 1)))

\* The loop over the rows, from the state st after the first st.nobs of them.
RECURSIVE NancorrRows(_, _, _)
NancorrRows(x, y, st) ==
    IF st.nobs = Len(x) THEN st
    ELSE NancorrRows(x, y, NancorrStep(st, FOfInt(x[st.nobs + 1]), FOfInt(y[st.nobs + 1])))

\*   divisor = sqrt(ssqdm_x * ssqdm_y);  covxy / divisor, NaN if divisor is 0
NancorrResult(st) ==
    IF st.nobs < 1 THEN FNaN
    ELSE LET divisor == FSqrt(FMul(st.ssqdm_x, st.ssqdm_y))
         IN  IF divisor.m = <<>> THEN FNaN ELSE FDiv(st.covxy, divisor)

\* r of columns a and b, a the later one in numeric_cols.
Nancorr(df, a, b) ==
    LET ca == Column(df, a)
        cb == Column(df, b)
        rows == FilterIdx([i \in 1..Len(df.rows) |-> i],
                          LAMBDA i : ~IsNa(ca[i]) /\ ~IsNa(cb[i]), 1)
    IN  NancorrResult(NancorrRows([i \in 1..Len(rows) |-> ca[rows[i]].n],
                                  [i \in 1..Len(rows) |-> cb[rows[i]].n], NancorrInit))

\* Variant without the 0.999 cap: every |r| that is a number is kept.
CorrKept_NoCap(r) == r.s # 0
\* corr[corr < 0.999].dropna(): |r| is a number below the double 0.999.
CorrKept(r) == r.s # 0 /\ FCmp(r, FDiv(FOfInt(999), FOfInt(1000))) < 0

\* The rank of each val[idx[i]] among them, the key argsort compares.
FloatRanks(val, idx) ==
    SubSeq([i \in 1..Len(idx) |->
              Cardinality({j \in 1..Len(idx) : FCmp(val[idx[j]], val[idx[i]]) < 0})],
           1, Len(idx))

\* Lines 95-99 on the unstacked matrix: pair[i] its i-th label, val[i] its
\* i-th |r|, kept the positions the filter of line 96 keeps.  The first kept
\* entry in sorted order is reported, |r| in hundredths as ".2f" shows it.
FirstKept(order, kept) ==
    order[CHOOSE i \in 1..Len(order) :
            order[i] \in kept /\ \A j \in 1..(i - 1) : order[j] \notin kept]
StrongestPair(pair, val, kept) ==
    IF kept = {} THEN <<>>
    ELSE LET notNaN == FilterIdx([i \in 1..Len(val) |-> i], LAMBDA i : val[i].s # 0, 1)
             idx == Reverse(notNaN)
             order == Reverse(SortWith(idx, Argsort(FloatRanks(val, idx))))
             best == FirstKept(order, kept)
         IN  <<Insight("corr", pair[best][1], pair[best][2],
                       FormatFixed(val[best], 100))>>

\* df[numeric_cols].corr().abs(): entry i of the unstacked matrix is |r| of
\* columns (i - 1) div k + 1 and (i - 1) mod k + 1; nancorr computes it with
\* the later column as x.
CorrMatrix(df, numeric_cols, k) ==
    SubSeq([i \in 1..(k * k) |->
              FAbs(Nancorr(df, numeric_cols[Max((i - 1) \div k + 1, ((i - 1) % k) + 1)],
                               numeric_cols[Min((i - 1) \div k + 1, ((i - 1) % k) + 1)]))],
           1, k * k)

CorrReport(pair, val) ==
    StrongestPair(pair, val, {i \in 1..Len(pair) : CorrKept(val[i])})

\* unstack(): one entry per ordered pair of columns, column by column.
UnstackedPairs(numeric_cols, k) ==
    [i \in 1..(k * k) |->
        <<numeric_cols[(i - 1) \div k + 1], numeric_cols[((i - 1) % k) + 1]>>]

\* Lines 94-99.
CorrInsights(df, numeric_cols) ==
    IF Len(numeric_cols) < 2 THEN <<>>
    ELSE CorrReport(UnstackedPairs(numeric_cols, Len(numeric_cols)),
                    CorrMatrix(df, numeric_cols, Len(numeric_cols)))

\* s.quantile(q4 / 4), linear interpolation, times 4.
Quantile4(sorted, q4) ==
    LET n == Len(sorted)
        lo == (q4 * (n - 1)) \div 4
        fr == (q4 * (n - 1)) % 4
        hi == Min(lo + 1, n - 1)
    IN  4 * sorted[lo + 1] + fr * (sorted[hi + 1] - sorted[lo + 1])

\* Lines 106-109: how many values lie outside [q1 - 1.5 iqr, q3 + 1.5 iqr].
OutlierCount(x) ==
    LET sorted == SortInts(x)
        q1 == Quantile4(sorted, 1)
        q3 == Quantile4(sorted, 3)
        iqr == q3 - q1
        lower8 == 2 * q1 - 3 * iqr
        upper8 == 2 * q3 + 3 * iqr
    IN  Cardinality({i \in 1..Len(x) : 8 * x[i] < lower8 \/ 8 * x[i] > upper8})

\* Lines 102-111.
OutlierInsights(df, numeric_cols) ==
    LET first == SubSeq(numeric_cols, 1, Min(OUTLIER_COLS, Len(numeric_cols)))
        present == [j \in 1..Len(first) |-> Present(df, first[j])]
        outliers == [j \in 1..Len(first) |->
                       IF Len(present[j]) < OUTLIER_MIN_POINTS THEN 0
                       ELSE OutlierCount(present[j])]
        hit == FilterIdx([j \in 1..Len(first) |-> j], LAMBDA j : outliers[j] > 0, 1)
    IN  [j \in 1..Len(hit) |-> Insight("outliers", first[hit[j]], "", outliers[hit[j]])]

\* The handler, lines 63-113.
InsightsHandler(r) ==
    LET df == CoerceDataframe(r.data)
        numeric_cols == SelectDtypes(df, "numeric")
    IN  IF DfEmpty(df) THEN [NoResp EXCEPT !.status = "ok", !.trace = {"empty"}]
        ELSE [NoResp EXCEPT
                !.status = "ok",
                !.row_count = Len(df.rows),
                !.column_count = Len(df.cols),
                !.insights = StatsInsights(df, numeric_cols)
                             \o TrendInsights(df, numeric_cols)
                             \o CorrInsights(df, numeric_cols)
                             \o OutlierInsights(df, numeric_cols),
                !.trace = {"profile", "stats", "trend", "correlation", "outliers"}]

----------------------------------------------------------------------------
(* The requests explored *)

RowsUpTo(R) == UNION {[1..r -> R] : r \in 0..MaxRows}
Table(cols, rows) == [cols |-> cols, rows |-> rows]

\* One numeric column, values possibly missing.
NumTables == {Table(<<"v">>, rows) : rows \in RowsUpTo({<<Null>>, <<Num(1)>>, <<Num(2)>>})}

\* One column of numbers sent as strings.
NumStrTables == {Table(<<"v">>, rows) : rows \in RowsUpTo({<<Null>>, <<Str("1")>>, <<Str("2")>>})}

\* A date column and a numeric column.  The dates allow evenly spaced days
\* (11, 15, 19), business days (Thu 11, Fri 12, Mon 15), uneven spacing
\* (12, 15, 19), a repeated date and missing values on either side.
DateTables ==
    {Table(<<"d", "v">>, rows) :
        rows \in RowsUpTo({<<Str("2024-01-11"), Num(1)>>, <<Str("2024-01-12"), Num(2)>>,
                           <<Str("2024-01-15"), Num(1)>>, <<Str("2024-01-19"), Num(2)>>,
                           <<Null, Num(1)>>, <<Str("2024-01-11"), Null>>})}

\* A text column and a numeric column.
StrTables ==
    {Table(<<"s", "v">>, rows) :
        rows \in RowsUpTo({<<Str("a"), Num(1)>>, <<Str("a"), Null>>, <<Null, Num(2)>>})}

\* Two numeric columns.
PairTables ==
    {Table(<<"v", "w">>, rows) :
        rows \in RowsUpTo({<<Num(1), Num(1)>>, <<Num(2), Num(1)>>, <<Num(1), Num(2)>>,
                           <<Null, Num(1)>>, <<Num(2), Null>>})}

\* The tables insights is explored on besides the single-column ones: fewer
\* kinds of row, its arithmetic being in doubles.
TrendTables ==
    {Table(<<"d", "v">>, rows) :
        rows \in RowsUpTo({<<Str("2024-01-11"), Num(1)>>, <<Str("2024-01-19"), Num(2)>>,
                           <<Str("2024-01-15"), Null>>})}

CorrTables ==
    {Table(<<"v", "w">>, rows) :
        rows \in RowsUpTo({<<Num(1), Num(1)>>, <<Num(2), Num(1)>>, <<Num(1), Num(2)>>})}

\* Records with no key at all: rows, but no column.
NoColumnTables == {Table(<<>>, [i \in 1..r |-> <<>>]) : r \in 1..MaxRows}

\* A time column that mixes numbers, dates and text: numeric when it holds
\* numbers only, datetime when a number comes first and the rest are
\* numbers and dates, object otherwise.
MixedTables ==
    {Table(<<"d", "v">>, rows) :
        rows \in RowsUpTo({<<Num(1), Num(1)>>, <<Str("2024-01-11"), Num(2)>>,
                           <<Str("a"), Null>>})}

\* An object column v whose text sits in rows that w drops, or reads as a
\* number.
GapTables ==
    {Table(<<"v", "w">>, rows) :
        rows \in RowsUpTo({<<Str("a"), Null>>, <<Num(1), Num(1)>>, <<Str("1"), Num(2)>>})}

\* Longer single-column tables: a wide outlier; a spike after a missing
\* first row; a ramp of 20; a low outlier among 8; text; a mean of 1/40;
\* four equal values.
SeriesTable(name, vals) == Table(<<name>>, [i \in 1..Len(vals) |-> <<vals[i]>>])
Wide8 == SeriesTable("v", <<Num(1), Num(2), Num(3), Num(2), Num(1), Num(2), Num(3), Num(500)>>)
SeriesTables ==
    {Wide8,
     SeriesTable("v", <<Null, Num(1), Num(1), Num(1), Num(1), Num(1), Num(1), Num(1),
                        Num(1), Num(1), Num(1), Num(1), Num(100)>>),
     SeriesTable("v", [i \in 1..20 |-> Num(i)]),
     SeriesTable("v", <<Num(1), Num(1), Num(2), Num(2), Num(2), Num(3), Num(3), Num(9)>>),
     SeriesTable("v", [i \in 1..8 |-> Str("a")]),
     SeriesTable("v", [i \in 1..40 |-> Num(IF i = 40 THEN 1 ELSE 0)]),
     SeriesTable("v", [i \in 1..4 |-> Num(1)])}

\* Longer tables with a time column d and a target v:
\*   four business days out of order;
\*   a number before three dates (a time of 1970-01-01, then 2024);
\*   text in a row that the missing date drops, on 3 and on 4 dates;
\*   the same with the target sent as numeric strings;
\*   text in the time column, in a row that the missing target drops, the
\*   other times being dates, or numbers;
\*   20 rows on 4 dates: long enough for the sort to partition, so that
\*   equal keys change their order.
DatedTables ==
    {Table(<<"d", "v">>, rows) : rows \in {
        << <<Str("2024-01-19"), Num(2)>>, <<Str("2024-01-12"), Num(2)>>,
           <<Str("2024-01-15"), Num(1)>>, <<Str("2024-01-11"), Num(1)>> >>,
        << <<Num(1), Num(1)>>, <<Str("2024-01-11"), Num(2)>>, <<Str("2024-01-12"), Num(3)>>,
           <<Str("2024-01-15"), Num(5)>> >>,
        << <<Null, Str("a")>>, <<Str("2024-01-11"), Num(1)>>, <<Str("2024-01-12"), Num(2)>>,
           <<Str("2024-01-15"), Num(1)>> >>,
        << <<Null, Str("a")>>, <<Str("2024-01-11"), Num(1)>>, <<Str("2024-01-12"), Num(2)>>,
           <<Str("2024-01-15"), Num(1)>>, <<Str("2024-01-19"), Num(2)>> >>,
        << <<Null, Str("a")>>, <<Str("2024-01-11"), Str("1")>>,
           <<Str("2024-01-12"), Str("2")>>, <<Str("2024-01-15"), Str("1")>> >>,
        << <<Str("a"), Null>>, <<Str("2024-01-11"), Num(1)>>, <<Str("2024-01-12"), Num(2)>>,
           <<Str("2024-01-15"), Num(1)>> >>,
        << <<Str("a"), Null>>, <<Num(3), Num(1)>>, <<Num(1), Num(2)>>, <<Num(2), Num(1)>> >>,
        << <<Str("2024-01-19"), Num(8)>>, <<Str("2024-01-12"), Num(3)>>,
           <<Str("2024-01-19"), Num(3)>>, <<Str("2024-01-11"), Num(8)>>,
           <<Str("2024-01-15"), Num(3)>>, <<Str("2024-01-11"), Num(9)>>,
           <<Str("2024-01-11"), Num(7)>>, <<Str("2024-01-19"), Num(3)>>,
           <<Str("2024-01-11"), Num(9)>>, <<Str("2024-01-11"), Num(1)>>,
           <<Str("2024-01-11"), Num(4)>>, <<Str("2024-01-12"), Num(1)>>,
           <<Str("2024-01-19"), Num(6)>>, <<Str("2024-01-19"), Num(4)>>,
           <<Str("2024-01-12"), Num(5)>>, <<Str("2024-01-19"), Num(1)>>,
           <<Str("2024-01-11"), Num(8)>>, <<Str("2024-01-15"), Num(7)>>,
           <<Str("2024-01-11"), Num(5)>>, <<Str("2024-01-15"), Num(4)>> >> }}

\* Tables of several numeric columns: x2 = 2 x; |r| = 1/8 exactly; a missing
\* value on either side of a pair; 5 columns, whose 25 correlations are
\* enough for the sort to partition.
XX2 ==
    Table(<<"x", "x2">>,
          << <<Num(1), Num(2)>>, <<Num(2), Num(4)>>, <<Num(3), Num(6)>>, <<Num(4), Num(8)>> >>)
WideTables ==
    {XX2,
     Table(<<"x", "y">>,
           << <<Num(0), Num(0)>>, <<Num(0), Num(0)>>, <<Num(0), Num(2)>>, <<Num(2), Num(3)>>,
              <<Num(3), Num(0)>> >>),
     Table(<<"v", "w">>,
           << <<Num(1), Num(1)>>, <<Null, Num(5)>>, <<Num(2), Num(1)>>, <<Num(3), Null>>,
              <<Num(1), Num(2)>> >>),
     Table(<<"c0", "c1", "c2", "c3", "c4">>,
           << <<Num(4), Num(2), Num(5), Num(2), Num(5)>>,
              <<Num(5), Num(5), Num(4), Num(0), Num(3)>>,
              <<Num(1), Num(5), Num(0), Num(1), Num(0)>>,
              <<Num(2), Num(3), Num(1), Num(3), Num(4)>>,
              <<Num(0), Num(4), Num(1), Num(0), Num(5)>> >>)}

Request(op, data, target, date_column, numeric_columns) ==
    [op |-> op, data |-> data, target_column |-> target,
     date_column |-> date_column, numeric_columns |-> numeric_columns]
NoReq == Request("none", Table(<<>>, <<>>), "", NoneStr, NoneList)

ForecastRequests ==
    {Request("forecast", t, target, dc, NoneList) :
        t \in NumTables \cup NumStrTables \cup NoColumnTables \cup SeriesTables,
        target \in {"v", "zz"}, dc \in {NoneStr, Some(""), Some("zz")}}
    \cup
    {Request("forecast", t, "v", dc, NoneList) :
        t \in DateTables \cup DatedTables, dc \in {NoneStr, Some("d"), Some("zz")}}
    \cup
    {Request("forecast", t, "v", dc, NoneList) :
        t \in MixedTables, dc \in {NoneStr, Some("d")}}
    \cup
    {Request("forecast", t, x[1], x[2], NoneList) :
        t \in NumTables \cup TrendTables,
        x \in {<<"v", Some("v")>>, <<"d", NoneStr>>, <<"d", Some("d")>>}}
    \cup
    {Request("forecast", t, x[1], x[2], NoneList) :
        t \in StrTables,
        x \in {<<"v", NoneStr>>, <<"s", NoneStr>>, <<"v", Some("s")>>, <<"s", Some("v")>>}}

\* IsolationForest's outcomes grow with the rows: the tables of 20 rows and
\* more are left to the other two operations.
AnomalyRequests ==
    {Request("anomaly", t, "", NoneStr, nc) :
        t \in NumTables \cup PairTables \cup StrTables \cup NoColumnTables
              \cup {s \in SeriesTables : Len(s.rows) < 20},
        nc \in {NoneList, Some(<<>>), Some(<<"v">>), Some(<<"w">>), Some(<<"s">>),
                Some(<<"v", "w">>)}}
    \cup
    {Request("anomaly", t, "", NoneStr, nc) :
        t \in GapTables, nc \in {NoneList, Some(<<"v">>), Some(<<"v", "w">>)}}
    \cup
    {Request("anomaly", t, "", NoneStr, Some(<<"d">>)) : t \in TrendTables}

\* The statistics are computed in 32-bit integers here: the series with a
\* value of 100 or more are left to the other two operations.
InsightsRequests ==
    {Request("insights", t, "", NoneStr, NoneList) :
        t \in NumTables \cup NumStrTables \cup StrTables \cup TrendTables \cup CorrTables
              \cup NoColumnTables \cup DatedTables \cup WideTables
              \cup {s \in SeriesTables : \A i \in 1..Len(s.rows) : s.rows[i][1].n < 100}}

Requests == ForecastRequests \cup AnomalyRequests \cup InsightsRequests

----------------------------------------------------------------------------
(* The server *)

Init ==
    /\ sm \in BOOLEAN
    /\ IsolationForest \in BOOLEAN
    /\ pc = "idle"
    /\ req = NoReq
    /\ resp = NoResp

\* A request body is validated by pydantic and routed to its handler.
Receive ==
    /\ pc = "idle"
    /\ \E r \in Requests : req' = r
    /\ pc' = "received"
    /\ UNCHANGED <<sm, IsolationForest, resp>>

\* Whether the handler gets as far as fitting ARIMA on this request.
ArimaReached(r, smAvailable) ==
    LET df == CoerceDataframe(r.data)
        built == BuildSeries(df, r.target_column, TimeAxis(df, r.date_column))
    IN  /\ ~MissingTarget(df, r.target_column)
        /\ ~built.raised /\ TryArima(smAvailable, built.vals)
        /\ ~AsFloatRaises(built.vals, df.dtype[r.target_column])

\* POST /api/forecast.  The library's outcome is drawn only when it is called.
Forecast ==
    /\ pc = "received" /\ req.op = "forecast"
    /\ \E arima \in IF ArimaReached(req, sm) THEN ArimaOutcomes
                     ELSE {[raised |-> TRUE, values |-> <<>>]} :
          resp' = ForecastHandler(req, sm, arima)
    /\ pc' = "done"
    /\ UNCHANGED <<sm, IsolationForest, req>>

\* The rows of X the fitted forest scores, each the tuple of its values
\* (none when fit is not reached or raises).
ScoredRows(r) ==
    LET df == CoerceDataframe(r.data)
        cols == NumericCols(df, r.numeric_columns)
    IN  IF DfEmpty(df) \/ \E j \in 1..Len(cols) : cols[j] \notin ColNames(df)
        THEN <<>>
        ELSE LET X == DropnaRows(df, cols)
             IN  IF FitRaises(df, cols, X) THEN <<>>
                 ELSE SubSeq([i \in 1..Len(X) |->
                                [c \in 1..Len(cols) |-> Column(df, cols[c])[X[i]]]],
                             1, Len(X))

\* POST /api/anomaly.  The library's outcome is drawn only when it is called.
Anomaly ==
    /\ pc = "received" /\ req.op = "anomaly"
    /\ \E iforest \in IF IsolationForest THEN IForestOutcomes(ScoredRows(req)) ELSE {{}} :
          resp' = AnomalyHandler(req, IsolationForest, iforest)
    /\ pc' = "done"
    /\ UNCHANGED <<sm, IsolationForest, req>>

\* POST /api/insights
Insights ==
    /\ pc = "received" /\ req.op = "insights"
    /\ resp' = InsightsHandler(req)
    /\ pc' = "done"
    /\ UNCHANGED <<sm, IsolationForest, req>>

\* The reply is sent; nothing of the request is kept.
Reply ==
    /\ pc = "done"
    /\ pc' = "idle"
    /\ req' = NoReq
    /\ resp' = NoResp
    /\ UNCHANGED <<sm, IsolationForest>>

Next == Receive \/ Forecast \/ Anomaly \/ Insights \/ Reply

Spec == Init /\ [][Next]_vars

----------------------------------------------------------------------------
(* Properties.  Each is a statement about the reply to the request in req,  *)
(* read in the states where the handler has finished.                       *)

Handled(op) == pc = "done" /\ req.op = op

\* The forecast reply carries 12 values and steps = 12.
TwelveValues == resp.status = "ok" /\ Len(resp.forecast) = STEPS /\ resp.steps = STEPS

\* What the caller sent, before any coercion.
RawRows == Len(req.data.rows)
RawColumn(c) == Column(req.data, c)
RawHasNumbersOnly(c) ==
    \A i \in 1..RawRows :
        \/ RawColumn(c)[i].k \in {"null", "num"}
        \/ RawColumn(c)[i].k = "str" /\ RawColumn(c)[i].s \in NumStrings
RawNumericColumns == {c \in ColNames(req.data) : RawHasNumbersOnly(c)}

\* No list, or an empty one.
NoSelection == ~req.numeric_columns.some \/ req.numeric_columns.val = <<>>

\* The columns anomaly detection works on.
SelectedColumns ==
    IF NoSelection THEN RawNumericColumns
    ELSE {req.numeric_columns.val[j] : j \in 1..Len(req.numeric_columns.val)}

\* The series of the forecast request in req, and the time column it used.
ReqDf == CoerceDataframe(req.data)
ReqTimeAxis == TimeAxis(ReqDf, req.date_column)
ReqSeries == BuildSeries(ReqDf, req.target_column, ReqTimeAxis).vals
UsesTimeColumn == ReqTimeAxis.some /\ ReqTimeAxis.val \in ColNames(req.data)
ValidTarget == RawRows > 0 /\ req.target_column \in ColNames(req.data)

\* The timestamps the series is built from: rows with a time and a target.
ReqTimes ==
    LET tcol == Column(ReqDf, ReqTimeAxis.val)
        xcol == Column(ReqDf, req.target_column)
    IN  FilterIdx(tcol, LAMBDA i : ~IsNa(tcol[i]) /\ ~IsNa(xcol[i]), 1)

\* The distance between two timestamps: days between two dates, nanoseconds
\* between two times of 1970-01-01, and neither across the two.
Spacing(a, b) == IF a.s = b.s THEN <<a.s, b.n - a.n>> ELSE <<"mixed", 0>>

\* No regular frequency can be inferred: the column is not datetime-typed,
\* there are fewer than 3 timestamps, or their spacing is uneven.
FrequencyNotInferred ==
    \/ ReqDf.dtype[ReqTimeAxis.val] # "datetime"
    \/ Len(ReqTimes) < 3
    \/ \E i, j \in 1..(Len(ReqTimes) - 1) :
          LET sorted == SortByTime([k \in 1..Len(ReqTimes) |-> [t |-> ReqTimes[k]]])
          IN  Spacing(sorted[i].t, sorted[i + 1].t) # Spacing(sorted[j].t, sorted[j + 1].t)

\* C1: a forecast on a non-empty table whose target column is present always
\* replies with 12 values and steps = 12, for every choice of time column.
\* Refuted by the code: with no usable point the fallback's ts.iloc[-1] raises
\* inside the except block, and infer_freq raises outside any try.
C1_ForecastAlwaysTwelve ==
    (Handled("forecast") /\ ValidTarget) => TwelveValues

\* C2: on an empty table or an absent target column the forecast replies with
\* an empty forecast and a non-empty message, without raising and without
\* running time-axis selection, the primary strategy or the fallback.
C2_MissingTargetReported ==
    (Handled("forecast") /\ ~ValidTarget) =>
        /\ resp.status = "ok"
        /\ resp.forecast = <<>>
        /\ resp.message # ""
        /\ resp.trace \cap {"time_axis", "series", "primary", "fallback"} = {}

C2_Witness ==
    /\ Handled("forecast")
    /\ RawRows > 0 /\ req.data.cols # <<>> /\ req.target_column \notin ColNames(req.data)
    /\ resp.status = "ok" /\ resp.message # "" /\ resp.forecast = <<>>

\* C3: every identifier detect-anomalies returns is the original position of
\* an input row that has a value in every selected column.
C3_AnomalyIdsAreOriginalRows ==
    (Handled("anomaly") /\ resp.status = "ok") =>
        \A k \in 1..Len(resp.anomalies) :
            /\ resp.anomalies[k] \in 0..(RawRows - 1)
            /\ \A c \in SelectedColumns :
                 /\ c \in ColNames(req.data)
                 /\ ~IsNa(RawColumn(c)[resp.anomalies[k] + 1])

\* The z-score path flags row 12 of a table whose row 0 was dropped: its
\* position in the working subset is 11.
C3_Witness ==
    /\ Handled("anomaly") /\ resp.status = "ok"
    /\ "fallback" \in resp.trace
    /\ \E k \in 1..Len(resp.anomalies) :
          /\ resp.anomalies[k] > 0
          /\ \E i \in 1..resp.anomalies[k] : \E c \in SelectedColumns : IsNa(RawColumn(c)[i])

\* C4 as claimed: an empty selection, an explicit empty list included even
\* when the table has numeric columns, gives an empty anomaly list.
C4_EmptyListGivesNoAnomalies ==
    (Handled("anomaly") /\ (\/ req.numeric_columns = Some(<<>>)
                            \/ ~req.numeric_columns.some /\ RawNumericColumns = {})) =>
        resp.status = "ok" /\ resp.anomalies = <<>>

\* The column [null, 1 (11 times), 100]: its last row has |z| = sqrt(11).
SpikeTable == SeriesTable("v", <<Null>> \o [i \in 1..11 |-> Num(1)] \o <<Num(100)>>)

\* C4 amended: detect-anomalies returns an empty list whenever no list or an
\* empty list is passed and the table has no numeric column.  An explicit
\* empty list is treated as no list, the numeric columns are scored: for
\* the column [null, 1 (11 times), 100] and an empty list the z-score path
\* returns row 12.
C4_NoNumericColumnGivesNoAnomalies ==
    /\ (Handled("anomaly") /\ NoSelection /\ RawNumericColumns = {}) =>
          resp.status = "ok" /\ resp.anomalies = <<>>
    /\ (Handled("anomaly") /\ req.numeric_columns = Some(<<>>) /\ req.data = SpikeTable
           /\ ~IsolationForest) =>
          resp.status = "ok" /\ resp.anomalies = <<12>>

\* An explicit empty list on a table with a numeric column, sklearn absent:
\* the column is scored by z-score and row 12 is returned.
C4_Witness ==
    /\ Handled("anomaly")
    /\ req.numeric_columns = Some(<<>>)
    /\ ~IsolationForest /\ RawNumericColumns = {"v"} /\ RawRows = 13
    /\ resp.status = "ok" /\ resp.anomalies = <<12>>
    /\ resp.trace = {"subset", "primary", "fallback"}

\* C5 as claimed: on the z-score path the column [1,2,3,2,1,2,3,500] gets
\* the row holding 500 (position 7) flagged.
C5_WideOutlierFlagged ==
    (Handled("anomaly") /\ req.data = Wide8 /\ "fallback" \in resp.trace) =>
        \E k \in 1..Len(resp.anomalies) : resp.anomalies[k] = 7

\* C5 amended: on the z-score path the column [1,2,3,2,1,2,3,500] yields an
\* empty result; the row holding 500 has |z| of about 2.65, not above 3.
C5_WideOutlierNotFlagged ==
    (Handled("anomaly") /\ req.data = Wide8 /\ "fallback" \in resp.trace) =>
        resp.status = "ok" /\ resp.anomalies = <<>>

C5_Witness ==
    /\ Handled("anomaly") /\ req.data = Wide8 /\ req.numeric_columns = Some(<<"v">>)
    /\ "fallback" \in resp.trace /\ resp.status = "ok" /\ resp.anomalies = <<>>

\* Insights of one kind about one column.
HasInsight(kind, col) ==
    \E k \in 1..Len(resp.insights) :
        resp.insights[k].kind = kind /\ resp.insights[k].col = col

\* C6 as claimed: for the rows x = 1..4, x2 = 2x the insights hold statistics
\* for x and for x2 and a strongest correlation naming x and x2 with |r| at
\* or near 1.00.
C6_PerfectPairReported ==
    (Handled("insights") /\ req.data = XX2) =>
        /\ HasInsight("stats", "x") /\ HasInsight("stats", "x2")
        /\ \E k \in 1..Len(resp.insights) :
              /\ resp.insights[k].kind = "corr"
              /\ {resp.insights[k].col, resp.insights[k].col2} = {"x", "x2"}
              /\ resp.insights[k].value >= 99

\* C6 amended: for the rows x = 1..4, x2 = 2x the insights hold statistics
\* for x and for x2 and no strongest-correlation insight (|r| = 1.00 is not
\* below 0.999, so the pair is dropped with the diagonal).
C6_PerfectPairDropped ==
    (Handled("insights") /\ req.data = XX2) =>
        /\ resp.status = "ok"
        /\ HasInsight("stats", "x") /\ HasInsight("stats", "x2")
        /\ \A k \in 1..Len(resp.insights) : resp.insights[k].kind # "corr"

C6_Witness ==
    /\ Handled("insights") /\ req.data = XX2
    /\ Len(resp.insights) = 2
    /\ resp.insights[1].kind = "stats" /\ resp.insights[1].mean = 250
    /\ resp.insights[2].kind = "stats" /\ resp.insights[2].mean = 500

\* All 12 values are the same number v.
FlatAt(v) == TwelveValues /\ \A i \in 1..STEPS : RatEq(resp.forecast[i], v)

\* C7: ARIMA is tried only with the capability present and at least 8
\* points; whenever it is not tried or raises, the reply carries the
\* moving-average projection and no failure reaches the caller.
\* Refuted by the code where the fallback itself raises (see C1).
C7_FallbackWheneverPrimaryFails ==
    Handled("forecast") =>
        /\ "primary" \in resp.trace => sm /\ Len(ReqSeries) >= ARIMA_MIN_POINTS
        /\ ("fallback" \in resp.trace) =>
              /\ resp.status = "ok"
              /\ \E v \in {resp.forecast[i] : i \in 1..Len(resp.forecast)} : FlatAt(v)

\* C8: detect-anomalies replies with a well-formed anomaly list for every
\* record list and every column list; no exception reaches the caller.
\* Refuted by the code: df[numeric_cols] raises KeyError on an absent column.
C8_AnomalyNeverRaises ==
    Handled("anomaly") => resp.status = "ok"

\* C9: when a time column is used and no regular frequency can be inferred
\* from it, the forecast still replies with 12 values.
\* Refuted by the code: infer_freq raises on fewer than 3 timestamps and on
\* a column that is not datetime-typed, outside any try.
C9_NoFrequencyStillForecasts ==
    (Handled("forecast") /\ ValidTarget /\ UsesTimeColumn /\ FrequencyNotInferred) =>
        TwelveValues

\* The projection the fallback is said to make on ts: the mean of the last
\* `window` points when there are that many, else the last observation.
ClaimedWindow(n) == IF n >= 2 THEN Min(5, Max(2, n \div 4)) ELSE 2
ClaimedProjection(ts) ==
    LET n == Len(ts)
        w == ClaimedWindow(n)
    IN  IF n >= w
        THEN IF \E j \in (n - w + 1)..n : IsNa(ts[j]) THEN NaN
             ELSE Rat(SumSeq([j \in 1..w |-> NumOf(ts[n - w + j])]), w)
        ELSE IF n >= 1 THEN ToFloat(ts[n]) ELSE NaN

\* C10: whenever the fallback runs on a series of n points, all 12 values
\* equal the mean of its last min(5, max(2, n div 4)) points (window 2 for
\* n < 2), or its last observation when it has fewer points than the window.
\* Refuted by the code: on an empty series the fallback raises, and on a
\* series resampled to days the last complete window is not the last one.
C10_FallbackProjection ==
    (Handled("forecast") /\ "fallback" \in resp.trace) =>
        FlatAt(ClaimedProjection(ReqSeries))

====
